---- MODULE Spec2Model ----
(***************************************************************************)
(* Model of TempCorrModel_03.04.2025_02_Github.py: a single-pass script    *)
(* that ingests per-case measurement files, attaches a temperature per     *)
(* metric, fits one regression per (metric, region) and writes a summary   *)
(* table and one figure per (metric, structure group).                     *)
(*                                                                         *)
(* Floating-point cells are records [kind, n]: a finite number n, NaN or   *)
(* infinity.  The fitted statistics themselves (r, p, slope, intercept and *)
(* their confidence half-widths) are floating-point results of scipy and   *)
(* are not part of the state; a summary record carries its two key columns.*)
(*                                                                         *)
(* Inputs: every csv file that exists parses and has the columns case,     *)
(* metric, region and value with no missing key cell; a temperature cell   *)
(* of the spreadsheet is a finite number or empty (NaN).  pearsonr returns *)
(* NaN with a warning for a constant x, linregress raises ValueError.      *)
(***************************************************************************)
EXTENDS Integers, Sequences, FiniteSets, TLC

VARIABLES
    case_folders,   \* glob(base_dir/*): the case names, in glob order
    files,          \* case name -> [main, t1]: the two csv files of a folder
    temp_df,        \* the temperature table, one record per spreadsheet row
    pc,             \* position of the script
    ci,             \* index of the next case folder of the case loop
    all_data,       \* list of per-(case, metric) subsets
    origin,         \* history: the case folder each element of all_data came from
    data,           \* the aggregated table
    fi,             \* index of the next (metric, group) figure
    summary,        \* list of summary records
    log,            \* printed messages
    saved,          \* figures written to output_plot_dir
    csv,            \* the summary csv: whether written, and its rows
    legend_only     \* TRUE once legend_only.png is written

vars == <<case_folders, files, temp_df, pc, ci, all_data, origin, data, fi,
          summary, log, saved, csv, legend_only>>

inputs == <<case_folders, files, temp_df>>

-----------------------------------------------------------------------------
(* Floating-point cells *)

Num(n) == [kind |-> "num", n |-> n]
NaN == [kind |-> "nan", n |-> 0]
Inf == [kind |-> "inf", n |-> 0]

isnull(v) == v.kind = "nan"
isfinite(v) == v.kind = "num"

\* pd.to_numeric(text, errors='coerce') on the cell texts the inputs use
to_numeric(text) ==
    CASE text = "1"   -> Num(1)
      [] text = "1.0" -> Num(1)
      [] text = "2"   -> Num(2)
      [] text = "3"   -> Num(3)
      [] text = "inf" -> Inf
      [] OTHER        -> NaN

-----------------------------------------------------------------------------
(* Settings *)

structure_group_names == <<"Basal Ganglia", "Limbic System", "Relay Centers">>

structure_groups ==
    [g \in {"Basal Ganglia", "Limbic System", "Relay Centers"} |->
        CASE g = "Basal Ganglia" -> <<"Caudate", "Putamen", "Pallidum">>
          [] g = "Limbic System" -> <<"Hippocampus", "Amygdala">>
          [] g = "Relay Centers" -> <<"Thalamus", "Brainstem">>]

region_colors ==
    [r \in {"Caudate", "Putamen", "Pallidum", "Hippocampus", "Amygdala",
            "Thalamus", "Brainstem"} |->
        CASE r = "Caudate"     -> "#1f77b4"
          [] r = "Putamen"     -> "#ff7f0e"
          [] r = "Pallidum"    -> "#2ca02c"
          [] r = "Hippocampus" -> "#9467bd"
          [] r = "Amygdala"    -> "#17becf"
          [] r = "Thalamus"    -> "#d62728"
          [] r = "Brainstem"   -> "#8c564b"]

metrics == <<"FA", "MD", "T1", "T2", "T2s">>

region_exclude == {"Accumbens"}

temp_map ==
    [m \in {"FA", "MD", "T1", "T2", "T2s"} |->
        CASE m = "FA"  -> "temp_DTI"
          [] m = "MD"  -> "temp_DTI"
          [] m = "T1"  -> "temp_T1"
          [] m = "T2"  -> "temp_T2"
          [] m = "T2s" -> "temp_T2s"]

\* the physiological bound of the dashed extrapolation
ExtrapLow == 4
ExtrapHigh == 37

-----------------------------------------------------------------------------
(* Sequence helpers *)

Range(s) == {s[i] : i \in DOMAIN s}

RECURSIVE Concat(_)
Concat(ss) == IF ss = <<>> THEN <<>> ELSE Head(ss) \o Concat(Tail(ss))

\* code-point order of the strings that occur in the key columns
SortedNames ==
    <<"Accumbens", "Amygdala", "Brainstem", "Caudate", "FA", "Hippocampus",
      "MD", "Pallidum", "Putamen", "T1", "T2", "T2s", "Thalamus",
      "Ventricle", "c1", "c2", "c3", "c4", "c5">>

Rank(s) == CHOOSE i \in DOMAIN SortedNames : SortedNames[i] = s

KeyLeq(a, b) ==
    \/ Rank(a[1]) < Rank(b[1])
    \/ /\ a[1] = b[1]
       /\ \/ Rank(a[2]) < Rank(b[2])
          \/ /\ a[2] = b[2]
             /\ Rank(a[3]) <= Rank(b[3])

RECURSIVE SortKeys(_)
SortKeys(S) ==
    IF S = {} THEN <<>>
    ELSE LET k == CHOOSE x \in S : \A y \in S : KeyLeq(x, y)
         IN <<k>> \o SortKeys(S \ {k})

-----------------------------------------------------------------------------
(* Ingestion: one iteration of the case loop *)

Key(r) == <<r.case, r.metric, r.region>>

\* pd.read_csv followed by the numeric coercion of the value column
read_csv(rows) ==
    [i \in DOMAIN rows |->
        [case |-> rows[i].case, metric |-> rows[i].metric,
         region |-> rows[i].region, value |-> to_numeric(rows[i].value)]]

\* df[~df['region'].isin(region_exclude)]
drop_excluded(df) ==
    LET keep(r) == r.region \notin region_exclude IN SelectSeq(df, keep)

\* one group's entry of GroupBy.first(): the first non-null value of the group
first_value(df, k) ==
    LET nonnull(r) == Key(r) = k /\ ~isnull(r.value)
        g == SelectSeq(df, nonnull)
    IN IF g = <<>> THEN NaN ELSE g[1].value

\* df.groupby(['case', 'metric', 'region']).first().reset_index()
groupby_first(df) ==
    LET ks == SortKeys({Key(df[i]) : i \in DOMAIN df})
    IN [i \in DOMAIN ks |->
           [case |-> ks[i][1], metric |-> ks[i][2], region |-> ks[i][3],
            value |-> first_value(df, ks[i])]]

\* df_t1.empty: the corrected file is absent or holds no row
t1_empty(f) == ~f.exists \/ f.rows = <<>>

\* lines 93-109: the table of one case after exclusion, deduplication and
\* the substitution of the corrected T1 rows
case_table(f) ==
    LET df_main == groupby_first(drop_excluded(read_csv(f.main.rows)))
        isT1(r) == r.metric = "T1"
        notT1(r) == r.metric # "T1"
        df_t1 == groupby_first(
                     SelectSeq(drop_excluded(read_csv(f.t1.rows)), isT1))
    IN IF ~t1_empty(f.t1)
       THEN SelectSeq(df_main, notT1) \o df_t1
       ELSE df_main

\* mutant: the lookup forgets to filter by case name
temp_row_of_any(case_name) == temp_df

\* temp_df[temp_df['case'] == case_name]
temp_row_of(case_name) ==
    LET match(t) == t.case = case_name IN SelectSeq(temp_df, match)

\* lines 117-122 for one metric: the subset with its temperature column
subset_of(df_main, temp_row, metric) ==
    LET has(r) == r.metric = metric
        sub == SelectSeq(df_main, has)
        temp_value == [i \in DOMAIN temp_row |-> temp_row[i][temp_map[metric]]]
    IN [i \in DOMAIN sub |->
           [case |-> sub[i].case, metric |-> sub[i].metric,
            region |-> sub[i].region, value |-> sub[i].value,
            temperature |-> temp_value[1]]]

\* lines 116-123: the subsets one case appends to all_data, in metric order;
\* a metric is passed over only when temp_value has no element
case_subsets(df_main, temp_row) ==
    LET has_value(m) == Len(temp_row) # 0
        ms == SelectSeq(metrics, has_value)
    IN [i \in DOMAIN ms |-> subset_of(df_main, temp_row, ms[i])]

\* a printed line: its fixed text and the values formatted into it
Msg(text, case, metric, region, group) ==
    [msg |-> text, case |-> case, metric |-> metric, region |-> region,
     group |-> group, count |-> 0]

\* line 81: print(f"Found {len(case_folders)} case folders.")
found_message(folders) ==
    [Msg("Found case folders.", "", "", "", "") EXCEPT !.count = Len(folders)]

-----------------------------------------------------------------------------
(* Statistics and rendering: one (metric, group) figure *)

\* data[(data['metric'] == metric) & (data['region'] == region)]
series(metric, region) ==
    LET pick(r) == r.metric = metric /\ r.region = region
    IN SelectSeq(data, pick)

\* y.nunique(): the number of distinct non-null values
nunique(df) ==
    Cardinality({df[i].value : i \in {j \in DOMAIN df : ~isnull(df[j].value)}})

\* mutant: the distinct-values test is left out
invalid_no_unique(df) ==
    \/ \E i \in DOMAIN df : isnull(df[i].temperature)
    \/ \E i \in DOMAIN df : isnull(df[i].value)
    \/ ~ \A i \in DOMAIN df : isfinite(df[i].value)

\* line 157: x.isnull().any() or y.isnull().any()
\*           or not np.isfinite(y).all() or y.nunique() < 2
invalid(df) ==
    \/ \E i \in DOMAIN df : isnull(df[i].temperature)
    \/ \E i \in DOMAIN df : isnull(df[i].value)
    \/ ~ \A i \in DOMAIN df : isfinite(df[i].value)
    \/ nunique(df) < 2

\* mutant: len(df) <= 2
too_few_off_by_one(df) == Len(df) <= 2

\* len(df) < 2
too_few(df) == Len(df) < 2

x_min(df) ==
    CHOOSE t \in {df[i].temperature.n : i \in DOMAIN df} :
        \A i \in DOMAIN df : t <= df[i].temperature.n

x_max(df) ==
    CHOOSE t \in {df[i].temperature.n : i \in DOMAIN df} :
        \A i \in DOMAIN df : t >= df[i].temperature.n

\* scipy.stats.linregress raises ValueError("Cannot calculate a linear
\* regression if all x values are identical") when max(x) == min(x)
linregress_raises(df) == x_max(df) = x_min(df)

\* lines 194-202: the dashed segments, each np.linspace(from, to, 50)
dashed(df) ==
    (IF x_min(df) > ExtrapLow
        THEN <<[from |-> ExtrapLow, to |-> x_min(df)]>> ELSE <<>>)
    \o
    (IF x_max(df) < ExtrapHigh
        THEN <<[from |-> x_max(df), to |-> ExtrapHigh]>> ELSE <<>>)

\* lines 187-210: what one region adds to the current figure
plot_of(region, df) ==
    [region |-> region,
     color |-> region_colors[region],
     scatter |-> [i \in DOMAIN df |-> <<df[i].temperature, df[i].value>>],
     dashed |-> dashed(df)]

\* the message of line 158
skip_message(metric, region) == <<Msg("Skipping", "", metric, region, "")>>

\* the summary records of lines 177-185 (key columns)
summary_record(metric, region) ==
    <<[region |-> region, metric |-> metric]>>

\* lines 150-210: one iteration of the region loop on the figure's
\* accumulated state
region_step(acc, metric, region) ==
    LET df == series(metric, region)
    IN IF acc.raised \/ too_few(df) THEN acc
       ELSE IF invalid(df)
       THEN [acc EXCEPT !.log = @ \o skip_message(metric, region)]
       ELSE IF linregress_raises(df)
       THEN [acc EXCEPT !.raised = TRUE]
       ELSE [acc EXCEPT !.summary = @ \o summary_record(metric, region),
                        !.plotted = Append(@, plot_of(region, df))]

RECURSIVE region_loop(_, _, _)
region_loop(acc, metric, regions) ==
    IF regions = <<>> THEN acc
    ELSE region_loop(region_step(acc, metric, Head(regions)), metric,
                     Tail(regions))

NumGroups == Len(structure_group_names)
NumFigures == Len(metrics) * NumGroups

metric_of(f) == metrics[((f - 1) \div NumGroups) + 1]
group_of(f) == structure_group_names[((f - 1) % NumGroups) + 1]

\* the region loop of figure f, started from the current summary and log
figure(f) ==
    region_loop([summary |-> summary, log |-> log, plotted |-> <<>>,
                 raised |-> FALSE],
                metric_of(f), structure_groups[group_of(f)])

-----------------------------------------------------------------------------
(* Actions *)

case_name == case_folders[ci]

\* lines 88-91
SkipNoMainFile ==
    /\ pc = "cases" /\ ci <= Len(case_folders)
    /\ ~files[case_name].main.exists
    /\ log' = log \o <<Msg("Processing case", case_name, "", "", ""),
                       Msg("Skipped: Main file not found.", "", "", "", "")>>
    /\ ci' = ci + 1
    /\ UNCHANGED <<inputs, pc, all_data, origin, data, fi, summary, saved,
                   csv, legend_only>>

t1_message(c) ==
    IF t1_empty(files[c].t1)
    THEN <<Msg("No corrected T1 file found for", c, "", "", "")>>
    ELSE <<>>

\* lines 88-114, the case has no row in the temperature table
SkipNoTemperature ==
    /\ pc = "cases" /\ ci <= Len(case_folders)
    /\ files[case_name].main.exists
    /\ temp_row_of(case_name) = <<>>
    /\ log' = log \o <<Msg("Processing case", case_name, "", "", "")>>
                  \o t1_message(case_name)
                  \o <<Msg("Skipped: No matching temperature data for",
                           case_name, "", "", "")>>
    /\ ci' = ci + 1
    /\ UNCHANGED <<inputs, pc, all_data, origin, data, fi, summary, saved,
                   csv, legend_only>>

\* lines 88-123, a whole iteration that reaches the metric loop
IngestCase ==
    /\ pc = "cases" /\ ci <= Len(case_folders)
    /\ files[case_name].main.exists
    /\ temp_row_of(case_name) # <<>>
    /\ LET subs == case_subsets(case_table(files[case_name]),
                                temp_row_of(case_name))
       IN /\ all_data' = all_data \o subs
          /\ origin' = origin \o [i \in DOMAIN subs |-> case_name]
    /\ log' = log \o <<Msg("Processing case", case_name, "", "", "")>>
                  \o t1_message(case_name)
    /\ ci' = ci + 1
    /\ UNCHANGED <<inputs, pc, data, fi, summary, saved, csv, legend_only>>

\* lines 125-126: raise ValueError("No valid data found across cases...")
AbortNoData ==
    /\ pc = "cases" /\ ci > Len(case_folders)
    /\ all_data = <<>>
    /\ pc' = "aborted"
    /\ UNCHANGED <<inputs, ci, all_data, origin, data, fi, summary, log,
                   saved, csv, legend_only>>

\* line 128: data = pd.concat(all_data, ignore_index=True)
Concatenate ==
    /\ pc = "cases" /\ ci > Len(case_folders)
    /\ all_data # <<>>
    /\ data' = Concat(all_data)
    /\ pc' = "figures"
    /\ UNCHANGED <<inputs, ci, all_data, origin, fi, summary, log, saved,
                   csv, legend_only>>

\* lines 145-175: linregress raises inside the region loop of the figure
FigureRaises ==
    /\ pc = "figures" /\ fi <= NumFigures
    /\ figure(fi).raised
    /\ summary' = figure(fi).summary
    /\ log' = figure(fi).log
    /\ pc' = "error"
    /\ UNCHANGED <<inputs, ci, all_data, origin, data, fi, saved, csv,
                   legend_only>>

\* lines 145-248 with added_regions > 0: the figure is saved (png and svg)
FigureSaved ==
    /\ pc = "figures" /\ fi <= NumFigures
    /\ ~figure(fi).raised
    /\ figure(fi).plotted # <<>>
    /\ summary' = figure(fi).summary
    /\ log' = figure(fi).log
    /\ saved' = Append(saved, [metric |-> metric_of(fi), group |-> group_of(fi),
                               regions |-> figure(fi).plotted])
    /\ fi' = fi + 1
    /\ UNCHANGED <<inputs, pc, ci, all_data, origin, data, csv, legend_only>>

\* lines 145-248 with added_regions = 0: nothing is saved
FigureEmpty ==
    /\ pc = "figures" /\ fi <= NumFigures
    /\ ~figure(fi).raised
    /\ figure(fi).plotted = <<>>
    /\ summary' = figure(fi).summary
    /\ log' = figure(fi).log \o <<Msg("No valid data to plot for", "",
                                     metric_of(fi), "", group_of(fi))>>
    /\ fi' = fi + 1
    /\ UNCHANGED <<inputs, pc, ci, all_data, origin, data, saved, csv,
                   legend_only>>

\* lines 250-252: summary_df.to_csv(output_csv)
WriteSummary ==
    /\ pc = "figures" /\ fi > NumFigures
    /\ csv' = [written |-> TRUE, rows |-> summary]
    /\ log' = Append(log, Msg("Analysis complete. Summary saved to", "", "",
                              "", ""))
    /\ pc' = "legend"
    /\ UNCHANGED <<inputs, ci, all_data, origin, data, fi, summary, saved,
                   legend_only>>

\* lines 254-264: legend_only.png
WriteLegend ==
    /\ pc = "legend"
    /\ legend_only' = TRUE
    /\ pc' = "done"
    /\ UNCHANGED <<inputs, ci, all_data, origin, data, fi, summary, log,
                   saved, csv>>

-----------------------------------------------------------------------------
(* Inputs: the folders, files and temperature table a run starts from *)

NoFile == [exists |-> FALSE, rows |-> <<>>]
File(rows) == [exists |-> TRUE, rows |-> rows]
Row(c, m, r, v) == [case |-> c, metric |-> m, region |-> r, value |-> v]
Temp(c, dti, t1) ==
    [case |-> c, temp_DTI |-> dti, temp_T1 |-> t1, temp_T2 |-> dti,
     temp_T2s |-> t1]
Folder(main, t1) == [main |-> main, t1 |-> t1]
SeqUpTo(S, n) == UNION {[1..k -> S] : k \in 0..n}
CaseNames == <<"c1", "c2", "c3", "c4", "c5">>

MaxDuplicates == 3
MaxCorrectedRows == 2
NumStatCases == 3

\* a second case with one FA and one T1 value at 20 degrees
RefFolder ==
    Folder(File(<<Row("c2", "FA", "Caudate", "1.0"),
                  Row("c2", "T1", "Caudate", "1.0")>>), NoFile)

\* duplicates: the rows of one primary file over two keys
DuplicateScenarios ==
    {[case_folders |-> <<"c1", "c2">>,
      files |-> [c \in {"c1", "c2"} |->
                    IF c = "c1" THEN Folder(File(rows), NoFile) ELSE RefFolder],
      temp_df |-> <<Temp("c1", Num(10), Num(10)), Temp("c2", Num(20), Num(20))>>] :
     rows \in SeqUpTo({Row("c1", "FA", r, v) :
                          r \in {"Caudate", "Putamen"}, v \in {"1", "2", "abc"}},
                      MaxDuplicates)}

\* corrected T1: a fixed primary file and every small corrected file
CorrectedScenarios ==
    {[case_folders |-> <<"c1", "c2">>,
      files |-> [c \in {"c1", "c2"} |->
                    IF c = "c1"
                    THEN Folder(File(<<Row("c1", "FA", "Caudate", "1"),
                                       Row("c1", "T1", "Caudate", "1"),
                                       Row("c1", "T1", "Putamen", "1")>>), t1)
                    ELSE RefFolder],
      temp_df |-> <<Temp("c1", Num(10), Num(10)), Temp("c2", Num(20), Num(20))>>] :
     t1 \in {NoFile} \cup
            {File(rows) :
               rows \in SeqUpTo({Row("c1", m, r, v) :
                                    m \in {"T1", "FA"},
                                    r \in {"Caudate", "Accumbens"},
                                    v \in {"3", "abc"}},
                                MaxCorrectedRows)}}

\* files and temperature rows present, empty or missing, for two cases
FolderChoices(c, v) ==
    {Folder(main, t1) :
        main \in {NoFile, File(<<>>),
                  File(<<Row(c, "FA", "Caudate", v), Row(c, "T1", "Caudate", v)>>),
                  File(<<Row(c, "FA", "Accumbens", v)>>)},
        t1 \in {NoFile, File(<<Row(c, "T1", "Caudate", "3")>>)}}

TempChoices(c) ==
    {<<>>} \cup {<<Temp(c, dti, t1)>> : dti \in {NaN, Num(10), Num(20)},
                                       t1 \in {NaN, Num(10)}}

TemperatureScenarios ==
    {[case_folders |-> <<"c1", "c2">>,
      files |-> [c \in {"c1", "c2"} |-> IF c = "c1" THEN f1 ELSE f2],
      temp_df |-> t1 \o t2] :
     f1 \in FolderChoices("c1", "1"), f2 \in FolderChoices("c2", "2"),
     t1 \in TempChoices("c1"), t2 \in TempChoices("c2")}

\* a temperature table with two rows for the same case; files whose case
\* column names another folder; no folder at all
OddScenarios ==
    {[case_folders |-> <<"c2", "c1">>,
      files |-> [c \in {"c1", "c2"} |->
                    IF c = "c1"
                    THEN Folder(File(<<Row("c1", "FA", "Caudate", "1")>>), NoFile)
                    ELSE RefFolder],
      temp_df |-> <<Temp("c1", a, a), Temp("c2", Num(20), Num(20)),
                    Temp("c1", b, b)>>] :
     a \in {NaN, Num(10), Num(20)}, b \in {NaN, Num(10), Num(20)}}
    \cup
    {[case_folders |-> <<"c2", "c1">>,
      files |-> [c \in {"c1", "c2"} |->
                    IF c = "c1"
                    THEN Folder(File(<<Row(a, "FA", "Caudate", "2"),
                                       Row(b, "FA", "Caudate", v)>>), NoFile)
                    ELSE Folder(File(<<Row("c1", "FA", "Caudate", "1")>>), NoFile)],
      temp_df |-> <<Temp("c2", t, t), Temp("c1", Num(20), Num(20))>>] :
     a \in {"c1", "c2"}, b \in {"c1", "c2"}, v \in {"1", "2"},
     t \in {Num(10), Num(20)}}
    \cup
    {[case_folders |-> <<>>, files |-> <<>>, temp_df |-> <<>>]}

\* series of NumStatCases points: a Caudate value per case, and optionally a
\* Putamen and a Ventricle value in every case and a Thalamus value in c1
StatRows(c, v, extra) ==
    (IF v = "" THEN <<>> ELSE <<Row(c, "FA", "Caudate", v)>>)
    \o (IF "Putamen" \in extra
           THEN <<Row(c, "FA", "Putamen", IF c = "c1" THEN "1" ELSE "2")>>
           ELSE <<>>)
    \o (IF "Ventricle" \in extra
           THEN <<Row(c, "FA", "Ventricle", IF c = "c1" THEN "1" ELSE "2")>>
           ELSE <<>>)
    \o (IF "Thalamus" \in extra /\ c = "c1"
           THEN <<Row(c, "FA", "Thalamus", "1")>>
           ELSE <<>>)

StatCases == {CaseNames[i] : i \in 1..NumStatCases}

StatScenarios ==
    {[case_folders |-> [i \in 1..NumStatCases |-> CaseNames[i]],
      files |-> [c \in StatCases |-> Folder(File(StatRows(c, v[c], extra)), NoFile)],
      temp_df |-> [i \in 1..NumStatCases |->
                      Temp(CaseNames[i], t[CaseNames[i]], Num(20))]] :
     v \in [StatCases -> {"", "1", "2", "inf"}],
     t \in {u \in [StatCases -> {Num(10), Num(20)}] : u["c1"] = Num(10)},
     extra \in {{}, {"Putamen", "Thalamus"}, {"Ventricle"},
                {"Putamen", "Ventricle", "Thalamus"}}}

\* observed temperatures below, inside and above the bound [4, 37]
PlotScenarios ==
    {[case_folders |-> <<"c1", "c2">>,
      files |-> [c \in {"c1", "c2"} |->
                    Folder(File(<<Row(c, "FA", "Caudate",
                                      IF c = "c1" THEN "1" ELSE "2")>>), NoFile)],
      temp_df |-> <<Temp("c1", Num(a), Num(a)), Temp("c2", Num(b), Num(b))>>] :
     a \in {2, 3, 4, 20, 37, 38, 39}, b \in {2, 3, 4, 20, 37, 38, 39}}

Scenarios ==
    DuplicateScenarios \cup CorrectedScenarios \cup TemperatureScenarios
    \cup OddScenarios \cup StatScenarios \cup PlotScenarios

Init ==
    /\ \E s \in Scenarios :
          /\ case_folders = s.case_folders
          /\ files = s.files
          /\ temp_df = s.temp_df
    /\ pc = "cases"
    /\ ci = 1
    /\ all_data = <<>>
    /\ origin = <<>>
    /\ data = <<>>
    /\ fi = 1
    /\ summary = <<>>
    /\ log = <<found_message(case_folders)>>
    /\ saved = <<>>
    /\ csv = [written |-> FALSE, rows |-> <<>>]
    /\ legend_only = FALSE

Next ==
    \/ SkipNoMainFile
    \/ SkipNoTemperature
    \/ IngestCase
    \/ AbortNoData
    \/ Concatenate
    \/ FigureRaises
    \/ FigureSaved
    \/ FigureEmpty
    \/ WriteSummary
    \/ WriteLegend

Spec == Init /\ [][Next]_vars

-----------------------------------------------------------------------------
(* Vocabulary of the properties *)

\* the iteration of case folder c is over
Processed(c) == \E i \in DOMAIN case_folders : i < ci /\ case_folders[i] = c

HasMainFile(c) == files[c].main.exists

HasTemperatureRow(c) == \E i \in DOMAIN temp_df : temp_df[i].case = c

\* the first row of the temperature table for case c
TemperatureRow(c) ==
    temp_df[CHOOSE i \in DOMAIN temp_df :
                /\ temp_df[i].case = c
                /\ \A j \in DOMAIN temp_df : temp_df[j].case = c => i <= j]

\* the rows case folder c added to the aggregated table
Contributed(c) ==
    Concat([i \in DOMAIN all_data |->
               IF origin[i] = c THEN all_data[i] ELSE <<>>])

CountRows(df, k) == Cardinality({i \in DOMAIN df : Key(df[i]) = k})

\* a row of a csv file is the first of its key in that file
FirstOfKey(rows, j) == \A i \in DOMAIN rows : Key(rows[i]) = Key(rows[j]) => j <= i

\* the (metric, region) pairs that occur in the aggregated table
Pairs == {<<data[i].metric, data[i].region>> : i \in DOMAIN data}

PairRows(p) == {i \in DOMAIN data : data[i].metric = p[1] /\ data[i].region = p[2]}

GroupRegions == UNION {Range(structure_groups[g]) : g \in DOMAIN structure_groups}

\* the validity preconditions of the statistical fit, on the aggregated table
FewRows(p) == Cardinality(PairRows(p)) < 2

BadCell(p) ==
    \E i \in PairRows(p) :
        data[i].temperature.kind # "num" \/ data[i].value.kind # "num"

ConstantValue(p) == \A i, j \in PairRows(p) : data[i].value = data[j].value

PassesValidity(p) == ~FewRows(p) /\ ~BadCell(p) /\ ~ConstantValue(p)

Summarised(p, rows) ==
    {i \in DOMAIN rows : rows[i].metric = p[1] /\ rows[i].region = p[2]}

SkipLogged(p) ==
    {i \in DOMAIN log :
        log[i].msg = "Skipping" /\ log[i].metric = p[1] /\ log[i].region = p[2]}

\* the entries of region p[2] in the saved figures of metric p[1]
Plotted(p) ==
    {<<f, k>> \in (DOMAIN saved) \X (1..3) :
        /\ saved[f].metric = p[1]
        /\ k \in DOMAIN saved[f].regions
        /\ saved[f].regions[k].region = p[2]}

\* the figure whose region loop examines pair p, and whether it has run
FigureOf(p) ==
    CHOOSE f \in 1..NumFigures :
        metric_of(f) = p[1] /\ p[2] \in Range(structure_groups[group_of(f)])

Examined(p) == p[2] \in GroupRegions /\ FigureOf(p) < fi

-----------------------------------------------------------------------------
(* Properties *)

\* C1: a case that has a temperature row whose value for the column of a
\* metric is missing contributes no row of that metric to the aggregated table.
C1_MissingTemperatureSkipsMetric ==
    \A c \in DOMAIN files :
        (Processed(c) /\ HasMainFile(c) /\ HasTemperatureRow(c)) =>
            \A m \in Range(metrics) :
                isnull(TemperatureRow(c)[temp_map[m]]) =>
                    \A i \in DOMAIN Contributed(c) : Contributed(c)[i].metric # m

\* C2: for a case with a corrected-T1 file, every T1 row of the case in the
\* aggregated table is a row of the corrected file, and every non-excluded
\* T1 key of the corrected file occurs exactly once.
C2_CorrectedReplacesT1 ==
    \A c \in DOMAIN files :
        (Processed(c) /\ HasMainFile(c) /\ HasTemperatureRow(c)
                      /\ files[c].t1.exists) =>
            LET got == Contributed(c)
                corr == files[c].t1.rows
                usable(j) == corr[j].metric = "T1"
                             /\ corr[j].region \notin region_exclude
            IN /\ \A i \in DOMAIN got :
                      got[i].metric = "T1" =>
                          \E j \in DOMAIN corr :
                              /\ usable(j)
                              /\ Key(corr[j]) = Key(got[i])
                              /\ to_numeric(corr[j].value) = got[i].value
               /\ \A j \in DOMAIN corr :
                      usable(j) => CountRows(got, Key(corr[j])) = 1

\* C3: of the rows of a case's file that share (case, metric, region), exactly
\* one reaches the aggregated table, with the value of the first such row of
\* the file, also when that value is missing after the numeric coercion.
C3_FirstRowSurvives ==
    \A c \in DOMAIN files :
        (Processed(c) /\ HasMainFile(c) /\ HasTemperatureRow(c)) =>
            LET got == Contributed(c)
                rows == files[c].main.rows
            IN \A j \in DOMAIN rows :
                   (/\ FirstOfKey(rows, j)
                    /\ rows[j].region \notin region_exclude
                    /\ rows[j].metric \in Range(metrics)
                    /\ (rows[j].metric = "T1" => ~files[c].t1.exists)) =>
                       /\ CountRows(got, Key(rows[j])) = 1
                       /\ \A i \in DOMAIN got :
                              Key(got[i]) = Key(rows[j]) =>
                                  got[i].value = to_numeric(rows[j].value)

\* C4: a case whose primary file exists and that has no row in the
\* temperature table adds nothing to the aggregated table, and its iteration
\* hands over to the next case.
C4_NoTemperatureRowNoRows ==
    /\ [](\A c \in DOMAIN files :
             (Processed(c) /\ HasMainFile(c) /\ ~HasTemperatureRow(c)) =>
                 \A i \in DOMAIN origin : origin[i] # c)
    /\ [][(/\ pc = "cases" /\ ci <= Len(case_folders)
           /\ HasMainFile(case_folders[ci])
           /\ ~HasTemperatureRow(case_folders[ci])) =>
              (all_data' = all_data /\ ci' = ci + 1 /\ pc' = "cases")]_vars

C4_Witness ==
    /\ pc = "done"
    /\ data # <<>>
    /\ \E c \in DOMAIN files :
          /\ HasMainFile(c) /\ ~HasTemperatureRow(c)
          /\ files[c].main.rows # <<>>
          /\ case_folders[1] = c

\* C5: the run aborts at the emptiness check exactly when no row was
\* aggregated, and an aborted run has written neither the csv nor a figure.
C5_AbortIffNoRows ==
    /\ pc # "cases" => (pc = "aborted" <=> Concat(all_data) = <<>>)
    /\ pc = "aborted" => (~csv.written /\ saved = <<>>)

\* C6 as stated: the summary csv has one row for each (metric, region) pair
\* of the aggregated table that passes the validity preconditions, and no
\* other row.
C6_RowCountAllPairs ==
    pc = "done" =>
        /\ Len(csv.rows) = Cardinality({p \in Pairs : PassesValidity(p)})
        /\ \A p \in Pairs :
               PassesValidity(p) => Cardinality(Summarised(p, csv.rows)) = 1

\* C6 amended: the summary csv has one row for each (metric, region) pair of
\* the aggregated table whose region belongs to a structure group and that
\* passes the validity preconditions, and no other row.
C6_RowCountGroupPairs ==
    pc = "done" =>
        /\ csv.written
        /\ Len(csv.rows) =
               Cardinality({p \in Pairs : p[2] \in GroupRegions /\ PassesValidity(p)})
        /\ \A p \in Pairs :
               (p[2] \in GroupRegions /\ PassesValidity(p)) =>
                   Cardinality(Summarised(p, csv.rows)) = 1

C6_Witness ==
    /\ pc = "done"
    /\ Len(csv.rows) >= 1
    /\ \E p \in Pairs : p[2] \in GroupRegions /\ ~FewRows(p) /\ ~PassesValidity(p)
    /\ \E p \in Pairs : p[2] \notin GroupRegions /\ PassesValidity(p)

\* C7: every (metric, region) pair that the region loop examined and that
\* fails a validity precondition (fewer than 2 rows, a missing or non-finite
\* cell, fewer than 2 distinct values) has a message in the log: its own skip
\* message or the message of its figure.
C7_EverySkipLogged ==
    \A p \in Pairs :
        (Examined(p) /\ ~PassesValidity(p)) =>
                \/ SkipLogged(p) # {}
                \/ \E i \in DOMAIN log, g \in DOMAIN structure_groups :
                       /\ p[2] \in Range(structure_groups[g])
                       /\ log[i].msg = "No valid data to plot for"
                       /\ log[i].metric = p[1]
                       /\ log[i].group = g

\* C8: the statistics stage never raises: the region loop of every figure
\* runs to its end.
C8_StatisticsNeverAborts == pc # "error"

\* C9: a (metric, region) pair whose value is the same in all its rows has no
\* summary record and no scatter, regression line, dashed segment or legend
\* entry in any saved figure.
C9_ConstantPairExcluded ==
    \A p \in Pairs :
        ConstantValue(p) =>
            /\ Summarised(p, summary) = {}
            /\ Summarised(p, csv.rows) = {}
            /\ Plotted(p) = {}

C9_Witness ==
    /\ pc = "done"
    /\ saved # <<>>
    /\ \E p \in Pairs :
          /\ p[2] \in GroupRegions
          /\ ConstantValue(p) /\ ~FewRows(p) /\ ~BadCell(p)
          /\ \E i, j \in PairRows(p) : data[i].temperature # data[j].temperature

\* C10: every dashed segment of a plotted region lies outside the observed
\* temperature range of the region and inside [4, 37].
C10_DashedWithinBounds ==
    \A f \in DOMAIN saved :
        \A k \in DOMAIN saved[f].regions :
            LET r == saved[f].regions[k]
                xs == {r.scatter[i][1].n : i \in DOMAIN r.scatter}
            IN \A d \in DOMAIN r.dashed :
                   /\ \/ \A x \in xs : r.dashed[d].to <= x
                      \/ \A x \in xs : r.dashed[d].from >= x
                   /\ ExtrapLow <= r.dashed[d].from
                   /\ r.dashed[d].from <= r.dashed[d].to
                   /\ r.dashed[d].to <= ExtrapHigh

====
